---- MODULE Spec2Model ----
(***************************************************************************)
(* A model of the AST -> TIR builder (compiler/src/tir/builder.rs): the    *)
(* module registry and the nested builds that imports trigger, the scope   *)
(* resolution of identifiers and bindings, message sends, the scopes of    *)
(* closures, methods, classes, traits and try, and the diagnostics the     *)
(* builder records.                                                        *)
(*                                                                         *)
(* The recursion build -> import -> build is made explicit as a stack of   *)
(* build activations.  One action lowers one top-level node of the file on *)
(* top of the stack; the nodes below a top-level node are lowered by the   *)
(* recursive operator ProcessNode.  Import nodes are statements of a file  *)
(* body in every enumerated input.                                         *)
(*                                                                         *)
(* The vm Timer (vm/src/timer.rs) is modelled beside the builder, with a   *)
(* specification of its own (TimerSpec) that drives start, stop and the    *)
(* clock while the builder stays idle.                                     *)
(***************************************************************************)
EXTENDS Integers, Sequences, FiniteSets, TLC

\* ------------------------------------------------------------------ bounds
\* Largest number of import statements in a file of the import-graph inputs.
MaxImports == 2
\* Largest number of statements in the main file of the lowering inputs.
MaxNodes == 3
\* Number of top-level Builder::build calls made on one Builder.
MaxBuilds == 2
\* Cap on the depth of nested builds; C1_BuildTerminates shows that the depth
\* stays below it.
MaxDepth == 5
\* Last reading of the monotonic clock that the timer is driven to.
MaxClock == 6
\* Largest number of statements in the main file of the scope inputs.
MaxNested == 2

\* ------------------------------------------------------------ small values
EmptyMap == [k \in {} |-> k]

Insert(map, key, value) == (key :> value) @@ map

Last(seq) == seq[Len(seq)]

NoNode == [kind |-> "NoNode"]

NoVariable == [kind |-> "NoVariable"]

NoneModule == [kind |-> "None"]

SomeModule(module) == [kind |-> "Some", module |-> module]

\* ------------------------------------------------------------ configuration
\* Config::source_directories, in lookup order.
SourceDirectories == << <<"d1">>, <<"d2">> >>

\* Config::source_extension, kept as the last component of a path.
SourceExtension == "inko"

\* ------------------------------------------------------- variables & scopes
NewScope == [variables |-> EmptyMap, size |-> 0]

Lookup(scope, name) ==
    IF name \in DOMAIN scope.variables THEN scope.variables[name] ELSE NoVariable

Define(scope, name, mutability) ==
    LET variable == [name |-> name, mutability |-> mutability, index |-> scope.size]
    IN  [variable |-> variable,
         scope |-> [variables |-> Insert(scope.variables, name, variable),
                    size |-> scope.size + 1]]

\* -------------------------------------------------------------- diagnostics
NewDiagnostics == <<>>

DiagError(diags, path, message, line, column) ==
    Append(diags, [path |-> path, message |-> message, line |-> line, column |-> column])

MsgMutableConstant == <<"constants can not be declared as mutable">>

MsgRequiredReceiver ==
    <<"methods required by a trait can not be defined on an explicit receiver">>

MsgNotFound(mod_name) == <<"The module could not be found", mod_name>>

MsgIo == <<"io error">>

MsgSyntax == <<"syntax error">>

\* -------------------------------------------------------------- expressions
Void == [kind |-> "Void"]

Integer(value, line, col) ==
    [kind |-> "Integer", value |-> value, line |-> line, column |-> col]

GetSelf(line, col) == [kind |-> "GetSelf", line |-> line, column |-> col]

GetLocal(variable, line, col) ==
    [kind |-> "GetLocal", variable |-> variable, line |-> line, column |-> col]

GetGlobal(variable, line, col) ==
    [kind |-> "GetGlobal", variable |-> variable, line |-> line, column |-> col]

Attribute(name, line, col) ==
    [kind |-> "GetAttribute", receiver |-> GetSelf(line, col), name |-> name,
     line |-> line, column |-> col]

SetConstant(name, value, line, col) ==
    [kind |-> "SetAttribute", receiver |-> GetSelf(line, col), name |-> name,
     value |-> value, line |-> line, column |-> col]

SetAttribute(name, value, line, col) ==
    [kind |-> "SetAttribute", receiver |-> GetSelf(line, col), name |-> name,
     value |-> value, line |-> line, column |-> col]

\* The lowering context and the builder state a node's lowering can change:
\* context.locals, context.globals and self.diagnostics.
LowerState(locals, globals, diags) ==
    [locals |-> locals, globals |-> globals, diagnostics |-> diags]

SetLocal(name, value, mutability, line, col, st) ==
    LET d == Define(st.locals, name, mutability)
    IN  [expr |-> [kind |-> "SetLocal", variable |-> d.variable, value |-> value,
                   line |-> line, column |-> col],
         st |-> [st EXCEPT !.locals = d.scope]]

\* name_of_node: "" stands for None.
NameOfNode(node) ==
    IF node.kind \in {"Identifier", "Constant"} THEN node.name ELSE ""

RECURSIVE ProcessNode(_, _, _)
RECURSIVE ProcessNodes(_, _, _)
RECURSIVE SendObjectMessage(_, _, _, _, _, _, _)

\* A send that passes only the explicit arguments.
SendObjectMessageNoReceiver(name, receiver_node, arguments, line, col, path, st) ==
    LET rec  == IF receiver_node # NoNode
                THEN ProcessNode(receiver_node, path, st)
                ELSE [expr |-> GetSelf(line, col), st |-> st]
        rest == ProcessNodes(arguments, path, rec.st)
    IN  [expr |-> [kind |-> "SendObjectMessage", receiver |-> rec.expr,
                   name |-> name, arguments |-> rest.exprs,
                   line |-> line, column |-> col],
         st |-> rest.st]

SendObjectMessage(name, receiver_node, arguments, line, col, path, st) ==
    LET rec  == IF receiver_node # NoNode
                THEN ProcessNode(receiver_node, path, st)
                ELSE [expr |-> GetSelf(line, col), st |-> st]
        rest == ProcessNodes(arguments, path, rec.st)
    IN  [expr |-> [kind |-> "SendObjectMessage", receiver |-> rec.expr,
                   name |-> name, arguments |-> <<rec.expr>> \o rest.exprs,
                   line |-> line, column |-> col],
         st |-> rest.st]

\* An identifier lookup that tries the module globals before the locals.
IdentifierGlobalsFirst(name, line, col, path, st) ==
    IF Lookup(st.globals, name) # NoVariable
    THEN [expr |-> GetGlobal(Lookup(st.globals, name), line, col), st |-> st]
    ELSE IF Lookup(st.locals, name) # NoVariable
    THEN [expr |-> GetLocal(Lookup(st.locals, name), line, col), st |-> st]
    ELSE SendObjectMessage(name, NoNode, <<>>, line, col, path, st)

Identifier(name, line, col, path, st) ==
    IF Lookup(st.locals, name) # NoVariable
    THEN [expr |-> GetLocal(Lookup(st.locals, name), line, col), st |-> st]
    ELSE IF Lookup(st.globals, name) # NoVariable
    THEN [expr |-> GetGlobal(Lookup(st.globals, name), line, col), st |-> st]
    ELSE SendObjectMessage(name, NoNode, <<>>, line, col, path, st)

GetConstant(name, receiver, line, col, path, st) ==
    LET rec == IF receiver # NoNode
               THEN ProcessNode(receiver, path, st)
               ELSE [expr |-> GetSelf(line, col), st |-> st]
    IN  [expr |-> [kind |-> "GetAttribute", receiver |-> rec.expr, name |-> name,
                   line |-> line, column |-> col],
         st |-> rec.st]

\* A binding that defines the local before it lowers the value.
SetVariableDefineFirst(name_node, value_node, mutability, line, column, path, st) ==
    CASE name_node.kind = "Identifier" ->
            LET d     == Define(st.locals, name_node.name, mutability)
                value == ProcessNode(value_node, path, [st EXCEPT !.locals = d.scope])
            IN  [expr |-> [kind |-> "SetLocal", variable |-> d.variable,
                           value |-> value.expr, line |-> line, column |-> column],
                 st |-> value.st]
      [] name_node.kind = "Constant" ->
            LET value == ProcessNode(value_node, path, st)
            IN  [expr |-> SetConstant(name_node.name, value.expr, line, column),
                 st |-> IF mutability = "Mutable"
                        THEN [value.st EXCEPT !.diagnostics =
                                 DiagError(value.st.diagnostics, path,
                                           MsgMutableConstant, line, column)]
                        ELSE value.st]
      [] name_node.kind = "Attribute" ->
            LET value == ProcessNode(value_node, path, st)
            IN  [expr |-> SetAttribute(name_node.name, value.expr, line, column),
                 st |-> value.st]

\* A binding that reports the immutable constants instead of the mutable ones.
SetVariableInvertedCheck(name_node, value_node, mutability, line, column, path, st) ==
    LET value == ProcessNode(value_node, path, st)
    IN  CASE name_node.kind = "Identifier" ->
                SetLocal(name_node.name, value.expr, mutability, line, column, value.st)
          [] name_node.kind = "Constant" ->
                [expr |-> SetConstant(name_node.name, value.expr, line, column),
                 st |-> IF mutability # "Mutable"
                        THEN [value.st EXCEPT !.diagnostics =
                                 DiagError(value.st.diagnostics, path,
                                           MsgMutableConstant, line, column)]
                        ELSE value.st]
          [] name_node.kind = "Attribute" ->
                [expr |-> SetAttribute(name_node.name, value.expr, line, column),
                 st |-> value.st]

SetVariable(name_node, value_node, mutability, line, column, path, st) ==
    LET value == ProcessNode(value_node, path, st)
    IN  CASE name_node.kind = "Identifier" ->
                SetLocal(name_node.name, value.expr, mutability, line, column, value.st)
          [] name_node.kind = "Constant" ->
                [expr |-> SetConstant(name_node.name, value.expr, line, column),
                 st |-> IF mutability = "Mutable"
                        THEN [value.st EXCEPT !.diagnostics =
                                 DiagError(value.st.diagnostics, path,
                                           MsgMutableConstant, line, column)]
                        ELSE value.st]
          [] name_node.kind = "Attribute" ->
                [expr |-> SetAttribute(name_node.name, value.expr, line, column),
                 st |-> value.st]

\* method_arguments: the nodes are ArgumentDefine nodes; a default value is
\* lowered in the context of the definition.
RECURSIVE MethodArguments(_, _, _)
MethodArguments(nodes, path, st) ==
    IF nodes = <<>> THEN [arguments |-> <<>>, st |-> st]
    ELSE LET node == Head(nodes)
             def  == IF node.default # NoNode
                     THEN ProcessNode(node.default, path, st)
                     ELSE [expr |-> Void, st |-> st]
             arg  == [name |-> node.name,
                      default_value |-> IF node.default # NoNode
                                        THEN <<def.expr>> ELSE <<>>,
                      line |-> node.line, column |-> node.column,
                      rest |-> node.rest]
             tail == MethodArguments(Tail(nodes), path, def.st)
         IN  [arguments |-> <<arg>> \o tail.arguments, st |-> tail.st]

RequiredMethod(name, receiver, arguments, requirements, line, col, path, st) ==
    LET st1  == IF receiver # NoNode
                THEN [st EXCEPT !.diagnostics =
                         DiagError(st.diagnostics, path, MsgRequiredReceiver, line, col)]
                ELSE st
        args == MethodArguments(arguments, path, st1)
        reqs == ProcessNodes(requirements, path, args.st)
    IN  [expr |-> [kind |-> "RequiredMethod", name |-> name,
                   arguments |-> args.arguments, line |-> line, column |-> col,
                   requires |-> reqs.exprs],
         st |-> reqs.st]

\* code_object_with_locals: the body is lowered with the given locals and
\* the globals of the enclosing context; the enclosing locals are not part
\* of the new context and come back as they were.
CodeObjectWithLocals(node, locals, path, st) ==
    LET inner == IF node.kind = "Expressions"
                 THEN ProcessNodes(node.nodes, path, [st EXCEPT !.locals = locals])
                 ELSE [exprs |-> <<>>, st |-> [st EXCEPT !.locals = locals]]
    IN  [code |-> [locals |-> inner.st.locals, body |-> inner.exprs],
         st |-> [inner.st EXCEPT !.locals = st.locals]]

\* A code object whose scope starts as a copy of the enclosing locals.
CodeObjectInheritingLocals(node, path, st) ==
    CodeObjectWithLocals(node, st.locals, path, st)

CodeObject(node, path, st) == CodeObjectWithLocals(node, NewScope, path, st)

\* The loop of Builder::method over the lowered arguments.
RECURSIVE DefineArguments(_, _)
DefineArguments(arguments, locals) ==
    IF arguments = <<>> THEN locals
    ELSE DefineArguments(Tail(arguments),
                         Define(locals, Head(arguments).name, "Immutable").scope)

Closure(arg_nodes, body_node, line, col, path, st) ==
    LET body == CodeObject(body_node, path, st)
        args == MethodArguments(arg_nodes, path, body.st)
    IN  [expr |-> [kind |-> "Closure", arguments |-> args.arguments,
                   body |-> body.code, line |-> line, column |-> col],
         st |-> args.st]

\* A method whose body is lowered in an empty scope, as a closure's is.
MethodWithoutParameters(name, receiver, arg_nodes, requirements, body, line, col, path, st) ==
    LET args      == MethodArguments(arg_nodes, path, st)
        body_expr == CodeObjectWithLocals(body, NewScope, path, args.st)
        rec       == IF receiver # NoNode
                     THEN ProcessNode(receiver, path, body_expr.st)
                     ELSE [expr |-> Void, st |-> body_expr.st]
        reqs      == ProcessNodes(requirements, path, rec.st)
    IN  [expr |-> [kind |-> "Method", name |-> name,
                   receiver |-> IF receiver # NoNode THEN <<rec.expr>> ELSE <<>>,
                   arguments |-> args.arguments, body |-> body_expr.code,
                   line |-> line, column |-> col, requires |-> reqs.exprs],
         st |-> reqs.st]

Method(name, receiver, arg_nodes, requirements, body, line, col, path, st) ==
    LET args      == MethodArguments(arg_nodes, path, st)
        locals    == DefineArguments(args.arguments, NewScope)
        body_expr == CodeObjectWithLocals(body, locals, path, args.st)
        rec       == IF receiver # NoNode
                     THEN ProcessNode(receiver, path, body_expr.st)
                     ELSE [expr |-> Void, st |-> body_expr.st]
        reqs      == ProcessNodes(requirements, path, rec.st)
    IN  [expr |-> [kind |-> "Method", name |-> name,
                   receiver |-> IF receiver # NoNode THEN <<rec.expr>> ELSE <<>>,
                   arguments |-> args.arguments, body |-> body_expr.code,
                   line |-> line, column |-> col, requires |-> reqs.exprs],
         st |-> reqs.st]

\* implements / implement: the trait name is lowered in the enclosing
\* context; a rename keeps the names of its two nodes.
RECURSIVE Implements(_, _, _)
Implements(nodes, path, st) ==
    IF nodes = <<>> THEN [implements |-> <<>>, st |-> st]
    ELSE LET node    == Head(nodes)
             renames == [i \in 1..Len(node.renames) |->
                            [src |-> NameOfNode(node.renames[i][1]),
                             alias |-> NameOfNode(node.renames[i][2])]]
             name    == ProcessNode(node.name, path, st)
             impl    == [name |-> name.expr, renames |-> renames,
                         line |-> node.line, column |-> node.column]
             tail    == Implements(Tail(nodes), path, name.st)
         IN  [implements |-> <<impl>> \o tail.implements, st |-> tail.st]

Class(name, implements, body, line, col, path, st) ==
    LET code_object == CodeObject(body, path, st)
        impl_exprs  == Implements(implements, path, code_object.st)
    IN  [expr |-> [kind |-> "Class", name |-> name, body |-> code_object.code,
                   implements |-> impl_exprs.implements,
                   line |-> line, column |-> col],
         st |-> impl_exprs.st]

DefTrait(name, body, line, col, path, st) ==
    LET code_object == CodeObject(body, path, st)
    IN  [expr |-> [kind |-> "Trait", name |-> name, body |-> code_object.code,
                   line |-> line, column |-> col],
         st |-> code_object.st]

\* try: the else argument is defined in the else body's own scope; in the
\* expression an Option is a sequence of at most one element.
Try(body_node, else_body, else_arg, line, col, path, st) ==
    LET body == CodeObject(body_node, path, st)
        d    == Define(NewScope, NameOfNode(else_arg), "Immutable")
        else_locals == IF else_arg # NoNode THEN d.scope ELSE NewScope
        else_code   == IF else_body # NoNode
                       THEN CodeObjectWithLocals(else_body, else_locals, path, body.st)
                       ELSE [code |-> <<>>, st |-> body.st]
    IN  [expr |-> [kind |-> "Try", body |-> body.code,
                   else_body |-> IF else_body # NoNode
                                 THEN <<else_code.code>> ELSE <<>>,
                   else_argument |-> IF else_body # NoNode /\ else_arg # NoNode
                                     THEN <<d.variable>> ELSE <<>>,
                   line |-> line, column |-> col],
         st |-> else_code.st]

ProcessNode(node, path, st) ==
    CASE node.kind = "Integer" ->
            [expr |-> Integer(node.value, node.line, node.column), st |-> st]
      [] node.kind = "SelfObject" ->
            [expr |-> GetSelf(node.line, node.column), st |-> st]
      [] node.kind = "Identifier" ->
            Identifier(node.name, node.line, node.column, path, st)
      [] node.kind = "Attribute" ->
            [expr |-> Attribute(node.name, node.line, node.column), st |-> st]
      [] node.kind = "Constant" ->
            GetConstant(node.name, node.receiver, node.line, node.column, path, st)
      [] node.kind = "LetDefine" ->
            SetVariable(node.name, node.value, "Immutable", node.line, node.column, path, st)
      [] node.kind = "VarDefine" ->
            SetVariable(node.name, node.value, "Mutable", node.line, node.column, path, st)
      [] node.kind = "Send" ->
            SendObjectMessage(node.name, node.receiver, node.arguments,
                              node.line, node.column, path, st)
      [] node.kind = "Closure" ->
            Closure(node.arguments, node.body, node.line, node.column, path, st)
      [] node.kind = "Method" /\ node.body # NoNode ->
            Method(node.name, node.receiver, node.arguments, node.requirements,
                   node.body, node.line, node.column, path, st)
      [] node.kind = "Method" /\ node.body = NoNode ->
            RequiredMethod(node.name, node.receiver, node.arguments,
                           node.requirements, node.line, node.column, path, st)
      [] node.kind = "Class" ->
            Class(node.name, node.implements, node.body,
                  node.line, node.column, path, st)
      [] node.kind = "Trait" ->
            DefTrait(node.name, node.body, node.line, node.column, path, st)
      [] node.kind = "Try" ->
            Try(node.body, node.else_body, node.else_argument,
                node.line, node.column, path, st)
      [] OTHER -> [expr |-> Void, st |-> st]

ProcessNodes(nodes, path, st) ==
    IF nodes = <<>> THEN [exprs |-> <<>>, st |-> st]
    ELSE LET head == ProcessNode(Head(nodes), path, st)
             tail == ProcessNodes(Tail(nodes), path, head.st)
         IN  [exprs |-> <<head.expr>> \o tail.exprs, st |-> tail.st]

\* ------------------------------------------------------------------ imports
RECURSIVE ModuleNameForImport(_)
\* The module name is kept as the sequence of its chunks: joining them with
\* the lookup separator is one-to-one on identifiers.
ModuleNameForImport(steps) ==
    IF steps = <<>> THEN <<>>
    ELSE LET step == Head(steps)
         IN  CASE step.kind = "Identifier" ->
                     <<step.name>> \o ModuleNameForImport(Tail(steps))
               [] step.kind = "Constant" -> <<>>
               [] OTHER -> ModuleNameForImport(Tail(steps))

\* The separator becomes the path separator and the extension is appended.
ModulePathForName(name) == name \o <<SourceExtension>>

\* The file name without its extension: the component before the extension.
ModuleNameForPath(path) ==
    IF Len(path) >= 2 THEN path[Len(path) - 1] ELSE ""

NoPath == <<>>

RECURSIVE FindInDirectories(_, _, _)
FindInDirectories(dirs, path, fs) ==
    IF dirs = <<>> THEN NoPath
    ELSE IF (Head(dirs) \o path) \in DOMAIN fs THEN Head(dirs) \o path
    ELSE FindInDirectories(Tail(dirs), path, fs)

FindModulePath(path, fs) == FindInDirectories(SourceDirectories, path, fs)

\* An import_symbols that binds every symbol under its own name.
RECURSIVE ImportSymbolsIgnoringAlias(_, _)
ImportSymbolsIgnoringAlias(nodes, globals) ==
    IF nodes = <<>> THEN [symbols |-> <<>>, globals |-> globals]
    ELSE LET node == Head(nodes)
         IN  IF node.kind = "ImportSymbol"
             THEN LET d      == Define(globals, node.symbol.name, "Immutable")
                      symbol == [kind |-> IF node.symbol.kind = "Identifier"
                                          THEN "module" ELSE "constant",
                                 name |-> node.symbol.name,
                                 variable |-> d.variable,
                                 line |-> node.symbol.line,
                                 column |-> node.symbol.column]
                      tail   == ImportSymbolsIgnoringAlias(Tail(nodes), d.scope)
                  IN  [symbols |-> <<symbol>> \o tail.symbols, globals |-> tail.globals]
             ELSE ImportSymbolsIgnoringAlias(Tail(nodes), globals)

RECURSIVE ImportSymbols(_, _)
ImportSymbols(nodes, globals) ==
    IF nodes = <<>> THEN [symbols |-> <<>>, globals |-> globals]
    ELSE LET node == Head(nodes)
         IN  IF node.kind = "ImportSymbol"
             THEN LET alias    == IF node.alias # NoNode THEN NameOfNode(node.alias) ELSE ""
                      var_name == IF alias # "" THEN alias ELSE node.symbol.name
                      d        == Define(globals, var_name, "Immutable")
                      symbol   == [kind |-> IF node.symbol.kind = "Identifier"
                                            THEN "module" ELSE "constant",
                                   name |-> node.symbol.name,
                                   variable |-> d.variable,
                                   line |-> node.symbol.line,
                                   column |-> node.symbol.column]
                      tail     == ImportSymbols(Tail(nodes), d.scope)
                  IN  [symbols |-> <<symbol>> \o tail.symbols, globals |-> tail.globals]
             ELSE ImportSymbols(Tail(nodes), globals)

\* A parse_file that reports a syntax error at the start of the file.
ParseFileErrorAtStart(path, fs, diags) ==
    IF path \notin DOMAIN fs \/ fs[path].status \in {"unreadable", "syntax"}
    THEN [ok |-> FALSE, ast |-> <<>>,
          diagnostics |-> DiagError(diags, path,
                                    IF path \in DOMAIN fs /\ fs[path].status = "syntax"
                                    THEN MsgSyntax ELSE MsgIo, 1, 1)]
    ELSE [ok |-> TRUE, ast |-> fs[path].ast, diagnostics |-> diags]

\* A parse_file that starts every file with an empty list of diagnostics.
ParseFileFreshDiagnostics(path, fs, diags) ==
    IF path \notin DOMAIN fs \/ fs[path].status = "unreadable"
    THEN [ok |-> FALSE, ast |-> <<>>,
          diagnostics |-> DiagError(NewDiagnostics, path, MsgIo, 1, 1)]
    ELSE IF fs[path].status = "syntax"
    THEN [ok |-> FALSE, ast |-> <<>>,
          diagnostics |-> DiagError(NewDiagnostics, path, MsgSyntax,
                                    fs[path].line, fs[path].column)]
    ELSE [ok |-> TRUE, ast |-> fs[path].ast, diagnostics |-> NewDiagnostics]

\* parse_file: the diagnostics after the call, and the tree when there is one.
ParseFile(path, fs, diags) ==
    IF path \notin DOMAIN fs \/ fs[path].status = "unreadable"
    THEN [ok |-> FALSE, ast |-> <<>>,
          diagnostics |-> DiagError(diags, path, MsgIo, 1, 1)]
    ELSE IF fs[path].status = "syntax"
    THEN [ok |-> FALSE, ast |-> <<>>,
          diagnostics |-> DiagError(diags, path, MsgSyntax, fs[path].line, fs[path].column)]
    ELSE [ok |-> TRUE, ast |-> fs[path].ast, diagnostics |-> diags]

\* A guard that also takes an entry without a value for a missing entry.
NeedsResolutionRetry(mods, mod_name) ==
    IF mod_name \in DOMAIN mods THEN mods[mod_name].kind = "None" ELSE TRUE

\* The guard of Builder::import: the registry has no entry for the name.
NeedsResolution(mods, mod_name) == mod_name \notin DOMAIN mods

\* A tail that asks whether the registry has an entry, not whether the entry
\* has a value.
ImportResultAnyEntry(mod_name, node, globals, mods) ==
    IF mod_name \in DOMAIN mods
    THEN LET syms == ImportSymbols(node.symbols, globals)
         IN  [expr |-> [kind |-> "ImportModule", path |-> ModulePathForName(mod_name),
                        line |-> node.line, column |-> node.column,
                        symbols |-> syms.symbols],
              globals |-> syms.globals]
    ELSE [expr |-> Void, globals |-> globals]

\* The tail of Builder::import: what the import lowers to, given the registry.
ImportResult(mod_name, node, globals, mods) ==
    IF mods[mod_name].kind = "Some"
    THEN LET syms == ImportSymbols(node.symbols, globals)
         IN  [expr |-> [kind |-> "ImportModule", path |-> ModulePathForName(mod_name),
                        line |-> node.line, column |-> node.column,
                        symbols |-> syms.symbols],
              globals |-> syms.globals]
    ELSE [expr |-> Void, globals |-> globals]

\* ------------------------------------------------------------------- inputs
IdNode(name, line, col) ==
    [kind |-> "Identifier", name |-> name, line |-> line, column |-> col]

ConstNode(name, line, col) ==
    [kind |-> "Constant", receiver |-> NoNode, name |-> name,
     line |-> line, column |-> col]

AttrNode(name, line, col) ==
    [kind |-> "Attribute", name |-> name, line |-> line, column |-> col]

IntNode(value, line, col) ==
    [kind |-> "Integer", value |-> value, line |-> line, column |-> col]

ImportNode(steps, symbols, line) ==
    [kind |-> "Import", steps |-> steps, symbols |-> symbols,
     line |-> line, column |-> 1]

SymbolNode(symbol, alias) ==
    [kind |-> "ImportSymbol", symbol |-> symbol, alias |-> alias]

DefineNode(kind, name, value, line) ==
    [kind |-> kind, name |-> name, value |-> value, line |-> line, column |-> 1]

SendNode(name, receiver, arguments, line, col) ==
    [kind |-> "Send", name |-> name, receiver |-> receiver,
     arguments |-> arguments, line |-> line, column |-> col]

RequiredMethodNode(name, receiver, line) ==
    [kind |-> "Method", name |-> name, receiver |-> receiver, arguments |-> <<>>,
     body |-> NoNode, requirements |-> <<>>, line |-> line, column |-> 1]

ExpressionsNode(nodes) == [kind |-> "Expressions", nodes |-> nodes]

ArgumentNode(name, line, col) ==
    [kind |-> "ArgumentDefine", name |-> name, default |-> NoNode,
     line |-> line, column |-> col, rest |-> FALSE]

ClosureNode(arguments, nodes, line) ==
    [kind |-> "Closure", arguments |-> arguments, body |-> ExpressionsNode(nodes),
     line |-> line, column |-> 1]

MethodNode(name, arguments, nodes, line) ==
    [kind |-> "Method", name |-> name, receiver |-> NoNode, arguments |-> arguments,
     body |-> ExpressionsNode(nodes), requirements |-> <<>>,
     line |-> line, column |-> 1]

ImplementNode(name, renames, line, col) ==
    [kind |-> "Implement", name |-> name, renames |-> renames,
     line |-> line, column |-> col]

ClassNode(name, implements, nodes, line) ==
    [kind |-> "Class", name |-> name, implements |-> implements,
     body |-> ExpressionsNode(nodes), line |-> line, column |-> 1]

TraitNode(name, nodes, line) ==
    [kind |-> "Trait", name |-> name, body |-> ExpressionsNode(nodes),
     line |-> line, column |-> 1]

TryNode(nodes, else_body, else_argument, line) ==
    [kind |-> "Try", body |-> ExpressionsNode(nodes), else_body |-> else_body,
     else_argument |-> else_argument, line |-> line, column |-> 1]

OkFile(ast) == [status |-> "ok", ast |-> ast, line |-> 0, column |-> 0]

UnreadableFile == [status |-> "unreadable", ast |-> <<>>, line |-> 0, column |-> 0]

SyntaxErrorFile == [status |-> "syntax", ast |-> <<>>, line |-> 2, column |-> 3]

FilePath(dir, name) == <<dir, name, SourceExtension>>

\* Import-graph inputs: the files a, b and c of the first source directory,
\* each missing, unreadable, malformed or a list of imports of a, b and c.
GraphNames == {"a", "b", "c"}

GraphAsts(max) ==
    UNION { { [i \in 1..n |-> ImportNode(<<IdNode(names[i], i, 8)>>, <<>>, i)] :
              names \in [1..n -> GraphNames] } : n \in 0..max }

GraphContents(max) ==
    {UnreadableFile, SyntaxErrorFile} \cup { OkFile(ast) : ast \in GraphAsts(max) }

GraphFileSystems ==
    UNION { { fa @@ fb @@ fc :
              fa \in [({FilePath("d1", "a")} \cap S) -> GraphContents(MaxImports)],
              fb \in [({FilePath("d1", "b")} \cap S) -> GraphContents(MaxImports)],
              fc \in [({FilePath("d1", "c")} \cap S) -> GraphContents(1)] } :
            S \in SUBSET { FilePath("d1", n) : n \in GraphNames } }

\* Lowering inputs: a main file m of up to MaxNodes statements drawn from
\* Statement, and a library module a that the main file can import.
StatementKinds == 1..10

Statement(k, line) ==
    CASE k = 1 -> ImportNode(<<IdNode("a", line, 8), ConstNode("K", line, 11)>>,
                             <<SymbolNode(IdNode("x", line, 14), NoNode)>>, line)
      [] k = 2 -> DefineNode("LetDefine", IdNode("x", line, 5), IntNode(1, line, 9), line)
      [] k = 3 -> DefineNode("VarDefine", IdNode("x", line, 5), IdNode("x", line, 9), line)
      [] k = 4 -> IdNode("x", line, 1)
      [] k = 5 -> DefineNode("VarDefine", ConstNode("X", line, 5), IdNode("x", line, 9), line)
      [] k = 6 -> DefineNode("LetDefine", ConstNode("X", line, 5), IntNode(1, line, 9), line)
      [] k = 7 -> DefineNode("LetDefine", AttrNode("x", line, 5), IntNode(2, line, 9), line)
      [] k = 8 -> SendNode("foo", IdNode("x", line, 1),
                           <<IntNode(1, line, 7), IdNode("x", line, 10)>>, line, 3)
      [] k = 9 -> SendNode("bar", NoNode, <<IdNode("x", line, 5)>>, line, 1)
      [] k = 10 -> RequiredMethodNode("baz", [kind |-> "SelfObject", line |-> line,
                                              column |-> 5], line)

LowerAsts(max) ==
    UNION { { [i \in 1..n |-> Statement(ks[i], i)] : ks \in [1..n -> StatementKinds] } :
            n \in 0..max }

LibraryLayouts ==
    { EmptyMap,
      FilePath("d1", "a") :> OkFile(<<>>),
      FilePath("d2", "a") :> OkFile(<<>>),
      (FilePath("d1", "a") :> SyntaxErrorFile) @@ (FilePath("d2", "a") :> OkFile(<<>>)) }

LowerFileSystems(max) ==
    { (FilePath("d1", "m") :> OkFile(ast)) @@ lib :
      ast \in LowerAsts(max), lib \in LibraryLayouts }

\* Scope inputs: a main file m of up to MaxNested statements drawn from
\* NestedStatement, beside a library module a that is there or missing.
NestedKinds == 1..10

NestedStatement(k, line) ==
    CASE k = 1 -> ImportNode(<<IdNode("a", line, 8)>>,
                             <<SymbolNode(IdNode("x", line, 11), NoNode)>>, line)
      [] k = 2 -> DefineNode("LetDefine", IdNode("x", line, 5), IntNode(1, line, 9), line)
      [] k = 3 -> ClosureNode(<<ArgumentNode("x", line, 5)>>, <<IdNode("x", line, 10)>>, line)
      [] k = 4 -> MethodNode("m", <<ArgumentNode("y", line, 7), ArgumentNode("x", line, 10)>>,
                             <<IdNode("x", line, 15), IdNode("y", line, 18)>>, line)
      [] k = 5 -> ClassNode("C", <<ImplementNode(ConstNode("T", line, 20),
                                                 <<<<IdNode("f", line, 23),
                                                     IdNode("g", line, 28)>>>>,
                                                 line, 15)>>,
                            <<IdNode("x", line, 35),
                              DefineNode("LetDefine", IdNode("x", line, 42),
                                         IntNode(2, line, 46), line),
                              IdNode("x", line, 49)>>, line)
      [] k = 6 -> TraitNode("T", <<IdNode("x", line, 11)>>, line)
      [] k = 7 -> TryNode(<<IdNode("x", line, 7)>>,
                          ExpressionsNode(<<IdNode("e", line, 22), IdNode("x", line, 25)>>),
                          IdNode("e", line, 17), line)
      [] k = 8 -> ImportNode(<<IdNode("a", line, 8)>>,
                             <<SymbolNode(ConstNode("Foo", line, 11), IdNode("y", line, 18)),
                               SymbolNode(IdNode("z", line, 21), NoNode)>>, line)
      [] k = 9 -> IdNode("y", line, 1)
      [] k = 10 -> TryNode(<<DefineNode("LetDefine", IdNode("x", line, 9),
                                        IntNode(3, line, 13), line),
                             IdNode("x", line, 16)>>, NoNode, NoNode, line)

NestedAsts(max) ==
    UNION { { [i \in 1..n |-> NestedStatement(ks[i], i)] : ks \in [1..n -> NestedKinds] } :
            n \in 0..max }

NestedFileSystems(max) ==
    { (FilePath("d1", "m") :> OkFile(ast)) @@ lib :
      ast \in NestedAsts(max), lib \in {EmptyMap, FilePath("d1", "a") :> OkFile(<<>>)} }

TopPaths == {FilePath("d1", "a"), FilePath("d1", "m")}

AllNames == { <<n>> : n \in GraphNames }

AllPaths == { FilePath(d, n) : d \in {"d1", "d2"}, n \in GraphNames \cup {"m"} }

\* -------------------------------------------------------------------- timer
\* Option<Instant>: the readings of the monotonic clock are counted in
\* nanoseconds from the first reading.
NoInstant == [kind |-> "None"]

SomeInstant(t) == [kind |-> "Some", value |-> t]

\* Timer::new
NewTimer == [start |-> NoInstant, stop |-> NoInstant]

NanosPerSecond == 1000000000

Returned(n) == [kind |-> "Returned", value |-> n]

Panicked == [kind |-> "Panicked"]

\* Instant::duration_since: the time from earlier to later; when later is
\* before earlier the standard library panics or returns zero, depending on
\* its version.
DurationSince(later, earlier) ==
    IF later >= earlier THEN {Returned(later - earlier)}
    ELSE {Returned(0), Panicked}

\* A finished that holds as soon as one of the two fields is set.
FinishedEither(t) == t.start.kind = "Some" \/ t.stop.kind = "Some"

\* Timer::finished
Finished(t) == t.start.kind = "Some" /\ t.stop.kind = "Some"

\* Timer::duration_nanosec: the set of outcomes of the call (values are far
\* below 2^64 here).
DurationNanosec(t) ==
    IF Finished(t)
    THEN { IF d = Panicked THEN Panicked
           ELSE Returned((d.value \div NanosPerSecond) * NanosPerSecond
                         + (d.value % NanosPerSecond)) :
           d \in DurationSince(t.stop.value, t.start.value) }
    ELSE {Returned(0)}

\* -------------------------------------------------------------------- state
VARIABLES
    files,          \* the file system the builder reads (never written)
    diagnostics,    \* Builder::diagnostics
    modules,        \* Builder::modules: module name -> None | Some(module)
    stack,          \* the active build calls, innermost last
    result,         \* what the last top-level build returned
    calls,          \* number of top-level build calls made
    searched,       \* per module name: calls of find_module_path by import
    nested,         \* per module name: calls of build by import
    created,        \* per file path: Module values constructed by build
    timer,          \* a vm Timer: its start and stop fields
    now,            \* the reading Instant::now() returns
    started,        \* Timer::start has been called on timer
    stopped         \* Timer::stop has been called on timer

timerVars == <<timer, now, started, stopped>>

builderVars == <<files, diagnostics, modules, stack, result, calls, searched, nested, created>>

vars == <<files, diagnostics, modules, stack, result, calls, searched, nested, created,
          timer, now, started, stopped>>

NewFrame(path, ast) ==
    [path |-> path, ast |-> ast, pc |-> 1,
     locals |-> NewScope, globals |-> NewScope, body |-> <<>>]

Top == stack[Len(stack)]

AtNode == stack # <<>> /\ Top.pc <= Len(Top.ast)

CurrentNode == Top.ast[Top.pc]

ReplaceTop(frame) == [stack EXCEPT ![Len(stack)] = frame]

\* One node of the body is lowered: process_nodes moves to the next node.
Lowered(frame, expr, locals, globals) ==
    [frame EXCEPT !.pc = @ + 1, !.body = Append(@, expr),
                  !.locals = locals, !.globals = globals]

InitBuilder(inputs) ==
    /\ files \in inputs
    /\ diagnostics = NewDiagnostics
    /\ modules = EmptyMap
    /\ stack = <<>>
    /\ result = [kind |-> "NotCalled"]
    /\ calls = 0
    /\ searched = [n \in AllNames |-> 0]
    /\ nested = [n \in AllNames |-> 0]
    /\ created = [p \in AllPaths |-> 0]
    /\ timer = NewTimer
    /\ now = 0
    /\ started = FALSE
    /\ stopped = FALSE

Init ==
    InitBuilder(GraphFileSystems \cup LowerFileSystems(MaxNodes)
                   \cup NestedFileSystems(MaxNested))

\* The inputs of the termination check: every import graph, and the main
\* files of at most one statement.
InitGraphs == InitBuilder(GraphFileSystems \cup LowerFileSystems(1))

\* ------------------------------------------------------------------ actions
\* A top-level Builder::build(path), up to the first node of the file.
Build(path) ==
    /\ stack = <<>>
    /\ calls < MaxBuilds
    /\ calls' = calls + 1
    /\ LET parsed == ParseFile(path, files, diagnostics)
       IN  /\ diagnostics' = parsed.diagnostics
           /\ IF parsed.ok
              THEN /\ stack' = <<NewFrame(path, parsed.ast)>>
                   /\ result' = [kind |-> "Running", path |-> path]
              ELSE /\ stack' = <<>>
                   /\ result' = [kind |-> "None", path |-> path]
    /\ UNCHANGED <<timerVars, files, modules, searched, nested, created>>

\* process_node on a node that is not an import.
LowerNode ==
    /\ AtNode
    /\ CurrentNode.kind # "Import"
    /\ LET r == ProcessNode(CurrentNode, Top.path,
                            LowerState(Top.locals, Top.globals, diagnostics))
       IN  /\ stack' = ReplaceTop(Lowered(Top, r.expr, r.st.locals, r.st.globals))
           /\ diagnostics' = r.st.diagnostics
    /\ UNCHANGED <<timerVars, files, modules, result, calls, searched, nested, created>>

\* Builder::import on a name the registry already has an entry for.
ImportKnown ==
    /\ AtNode
    /\ CurrentNode.kind = "Import"
    /\ LET mod_name == ModuleNameForImport(CurrentNode.steps)
       IN  /\ ~NeedsResolution(modules, mod_name)
           /\ LET r == ImportResult(mod_name, CurrentNode, Top.globals, modules)
              IN  stack' = ReplaceTop(Lowered(Top, r.expr, Top.locals, r.globals))
    /\ UNCHANGED <<timerVars, files, diagnostics, modules, result, calls, searched, nested, created>>

\* An import that inserts the placeholder only once the file is found.
ImportNotFoundNoEntry ==
    /\ AtNode
    /\ CurrentNode.kind = "Import"
    /\ LET mod_name == ModuleNameForImport(CurrentNode.steps)
           mod_path == ModulePathForName(mod_name)
       IN  /\ NeedsResolution(modules, mod_name)
           /\ FindModulePath(mod_path, files) = NoPath
           /\ searched' = [searched EXCEPT ![mod_name] = @ + 1]
           /\ diagnostics' = DiagError(diagnostics, Top.path, MsgNotFound(mod_name),
                                       CurrentNode.line, CurrentNode.column)
           /\ stack' = ReplaceTop(Lowered(Top, Void, Top.locals, Top.globals))
    /\ UNCHANGED <<timerVars, files, modules, result, calls, nested, created>>

\* Builder::import on a new name with no file in any source directory.
ImportNotFound ==
    /\ AtNode
    /\ CurrentNode.kind = "Import"
    /\ LET mod_name == ModuleNameForImport(CurrentNode.steps)
           mod_path == ModulePathForName(mod_name)
       IN  /\ NeedsResolution(modules, mod_name)
           /\ FindModulePath(mod_path, files) = NoPath
           /\ modules' = Insert(modules, mod_name, NoneModule)
           /\ searched' = [searched EXCEPT ![mod_name] = @ + 1]
           /\ diagnostics' = DiagError(diagnostics, Top.path, MsgNotFound(mod_name),
                                       CurrentNode.line, CurrentNode.column)
           /\ stack' = ReplaceTop(Lowered(Top, Void, Top.locals, Top.globals))
    /\ UNCHANGED <<timerVars, files, result, calls, nested, created>>

\* An import that registers the name only after the nested build has returned.
ImportFoundLatePlaceholder ==
    /\ AtNode
    /\ CurrentNode.kind = "Import"
    /\ Len(stack) < MaxDepth
    /\ LET mod_name  == ModuleNameForImport(CurrentNode.steps)
           mod_path  == ModulePathForName(mod_name)
           full_path == FindModulePath(mod_path, files)
           parsed    == ParseFile(full_path, files, diagnostics)
       IN  /\ NeedsResolution(modules, mod_name)
           /\ full_path # NoPath
           /\ searched' = [searched EXCEPT ![mod_name] = @ + 1]
           /\ nested' = [nested EXCEPT ![mod_name] = @ + 1]
           /\ diagnostics' = parsed.diagnostics
           /\ IF parsed.ok
              THEN /\ modules' = modules
                   /\ stack' = Append(stack, NewFrame(full_path, parsed.ast))
              ELSE /\ modules' = Insert(modules, mod_name, NoneModule)
                   /\ LET r == ImportResult(mod_name, CurrentNode, Top.globals, modules')
                      IN  stack' = ReplaceTop(Lowered(Top, r.expr, Top.locals, r.globals))
    /\ UNCHANGED <<timerVars, files, result, calls, created>>

\* Builder::import on a new name whose file is found: the nested build either
\* fails in parse_file and the import completes, or starts lowering the file.
ImportFound ==
    /\ AtNode
    /\ CurrentNode.kind = "Import"
    /\ Len(stack) < MaxDepth
    /\ LET mod_name  == ModuleNameForImport(CurrentNode.steps)
           mod_path  == ModulePathForName(mod_name)
           full_path == FindModulePath(mod_path, files)
           parsed    == ParseFile(full_path, files, diagnostics)
           pending   == Insert(modules, mod_name, NoneModule)
       IN  /\ NeedsResolution(modules, mod_name)
           /\ full_path # NoPath
           /\ searched' = [searched EXCEPT ![mod_name] = @ + 1]
           /\ nested' = [nested EXCEPT ![mod_name] = @ + 1]
           /\ diagnostics' = parsed.diagnostics
           /\ IF parsed.ok
              THEN /\ modules' = pending
                   /\ stack' = Append(stack, NewFrame(full_path, parsed.ast))
              ELSE /\ modules' = Insert(pending, mod_name, NoneModule)
                   /\ LET r == ImportResult(mod_name, CurrentNode, Top.globals, modules')
                      IN  stack' = ReplaceTop(Lowered(Top, r.expr, Top.locals, r.globals))
    /\ UNCHANGED <<timerVars, files, result, calls, created>>

\* The end of a build whose file parsed: the Module is returned, to the
\* caller of the top-level build or to the import that started the build.
BuildReturn ==
    /\ stack # <<>>
    /\ Top.pc > Len(Top.ast)
    /\ LET module == [path |-> Top.path, name |-> ModuleNameForPath(Top.path),
                      code |-> [locals |-> Top.locals, body |-> Top.body],
                      globals |-> Top.globals]
       IN  /\ created' = [created EXCEPT ![Top.path] = @ + 1]
           /\ IF Len(stack) = 1
              THEN /\ stack' = <<>>
                   /\ result' = [kind |-> "Some", path |-> Top.path, module |-> module]
                   /\ UNCHANGED modules
              ELSE LET caller   == stack[Len(stack) - 1]
                       node     == caller.ast[caller.pc]
                       mod_name == ModuleNameForImport(node.steps)
                   IN  /\ modules' = Insert(modules, mod_name, SomeModule(module))
                       /\ LET r == ImportResult(mod_name, node, caller.globals, modules')
                          IN  stack' = Append(SubSeq(stack, 1, Len(stack) - 2),
                                              Lowered(caller, r.expr, caller.locals, r.globals))
                       /\ UNCHANGED result
    /\ UNCHANGED <<timerVars, files, diagnostics, calls, searched, nested>>

Next ==
    \/ \E path \in TopPaths : Build(path)
    \/ LowerNode
    \/ ImportKnown
    \/ ImportNotFound
    \/ ImportFound
    \/ BuildReturn

Spec == Init /\ [][Next]_vars

\* The builder is one thread of control that runs each call to its end.
FairSpec == InitGraphs /\ [][Next]_vars /\ WF_vars(Next)

\* The timer starts as Timer::new leaves it, beside a builder that is never
\* called (its file system is empty).
TimerInit == InitBuilder({EmptyMap})

\* The monotonic clock advances.
Tick ==
    /\ now < MaxClock
    /\ now' = now + 1
    /\ UNCHANGED <<builderVars, timer, started, stopped>>

\* Timer::start
Start ==
    /\ timer' = [timer EXCEPT !.start = SomeInstant(now)]
    /\ started' = TRUE
    /\ UNCHANGED <<builderVars, now, stopped>>

\* Timer::stop
Stop ==
    /\ timer' = [timer EXCEPT !.stop = SomeInstant(now)]
    /\ stopped' = TRUE
    /\ UNCHANGED <<builderVars, now, started>>

TimerNext ==
    \/ Tick
    \/ Start
    \/ Stop

TimerSpec == TimerInit /\ [][TimerNext]_vars

\* ------------------------------------------------------------------- claims
\* The module name an enclosing build at depth d of the stack is resolving:
\* the name of the import its caller is suspended in.
Resolving(d) == ModuleNameForImport(stack[d].ast[stack[d].pc].steps)

\* C1: every top-level build terminates whatever the import graph is (a
\* builder that has started lowering a file eventually has no build left
\* active); the chain of nested builds is never longer than the number of
\* module names plus one, and no module name is being resolved twice at the
\* same time.
C1_BuildTerminates ==
    /\ [](Len(stack) <= Cardinality(AllNames) + 1)
    /\ [](\A d, e \in 1..(Len(stack) - 1) : d # e => Resolving(d) # Resolving(e))
    /\ (stack # <<>>) ~> (stack = <<>>)

\* A finished build in which a module of an import cycle was resolved: its
\* body holds a Void for the import of a name that did resolve in the end.
C1_Witness ==
    /\ stack = <<>>
    /\ result.kind = "Some"
    /\ \E n \in DOMAIN modules :
          /\ modules[n].kind = "Some"
          /\ \E i \in 1..Len(modules[n].module.code.body) :
                LET node == files[modules[n].module.path].ast[i]
                IN  /\ modules[n].module.code.body[i] = Void
                    /\ node.kind = "Import"
                    /\ ModuleNameForImport(node.steps) # n
                    /\ modules[ModuleNameForImport(node.steps)].kind = "Some"

\* C2: for every module name the directory search and the nested build that
\* imports trigger happen at most once on one Builder.
C2_ResolvedAtMostOnce ==
    \A n \in AllNames : searched[n] <= 1 /\ nested[n] <= 1

\* The file being lowered has imported one module twice, the module was
\* searched for once, and both imports lowered to ImportModule.
C2_Witness ==
    /\ stack # <<>>
    /\ \E i, j \in 1..Len(Top.body) :
          /\ i < j
          /\ Top.body[i].kind = "ImportModule"
          /\ Top.body[j].kind = "ImportModule"
          /\ Top.body[i].path = Top.body[j].path
          /\ \E n \in AllNames :
                ModulePathForName(n) = Top.body[i].path /\ searched[n] = 1 /\ nested[n] = 1

\* C3: over one top-level build and its nested builds a Module is created
\* once per file path, the file given to the top-level build included.
C3_CreatedOncePerPath ==
    calls <= 1 => \A p \in AllPaths : created[p] <= 1

\* The import at the current node of the innermost build names a module with
\* no registry entry and no file in any source directory.
ImportOfMissingModule ==
    /\ AtNode
    /\ CurrentNode.kind = "Import"
    /\ ModuleNameForImport(CurrentNode.steps) \notin DOMAIN modules
    /\ \A i \in 1..Len(SourceDirectories) :
          (SourceDirectories[i] \o ModuleNameForImport(CurrentNode.steps)
             \o <<SourceExtension>>) \notin DOMAIN files

\* C4: lowering an import of an unknown module that no source directory has
\* yields Void, appends exactly one module-not-found diagnostic with the
\* importing file's path and the import's position, and leaves the registry
\* entry of the name present without a value.
C4_ImportNotFound ==
    [][ImportOfMissingModule =>
          LET name == ModuleNameForImport(CurrentNode.steps)
          IN  /\ Len(stack') = Len(stack)
              /\ stack'[Len(stack)].body = Append(Top.body, Void)
              /\ diagnostics' =
                    Append(diagnostics,
                           [path |-> Top.path, message |-> MsgNotFound(name),
                            line |-> CurrentNode.line, column |-> CurrentNode.column])
              /\ name \in DOMAIN modules'
              /\ modules'[name] = NoneModule]_vars

\* An import has just been lowered to Void with a module-not-found diagnostic
\* as the last diagnostic and an entry without a value.
C4_Witness ==
    /\ stack # <<>>
    /\ Top.pc > 1
    /\ Last(Top.body) = Void
    /\ Top.ast[Top.pc - 1].kind = "Import"
    /\ diagnostics # <<>>
    /\ Last(diagnostics).message = MsgNotFound(ModuleNameForImport(Top.ast[Top.pc - 1].steps))
    /\ Last(diagnostics).path = Top.path
    /\ modules[ModuleNameForImport(Top.ast[Top.pc - 1].steps)] = NoneModule

\* The build at depth d of the stack completes an import in this step.
CompletesImport(d) ==
    /\ d <= Len(stack)
    /\ d <= Len(stack')
    /\ stack[d].pc <= Len(stack[d].ast)
    /\ stack[d].ast[stack[d].pc].kind = "Import"
    /\ stack'[d].pc = stack[d].pc + 1

\* C5: when an import completes it lowers to ImportModule exactly when the
\* registry then holds a Module for the name, and to Void otherwise: so to
\* Void when the file failed to read or parse and when an enclosing build is
\* still resolving the name.
C5_ImportModuleIffResolved ==
    [][\A d \in 1..MaxDepth :
          CompletesImport(d) =>
             LET name == ModuleNameForImport(stack[d].ast[stack[d].pc].steps)
                 expr == Last(stack'[d].body)
             IN  /\ name \in DOMAIN modules'
                 /\ Len(stack'[d].body) = Len(stack[d].body) + 1
                 /\ (expr.kind = "ImportModule") <=> (modules'[name].kind = "Some")
                 /\ expr.kind # "ImportModule" => expr = Void
                 /\ (\E e \in 1..(Len(stack') - 1) :
                        ModuleNameForImport(stack'[e].ast[stack'[e].pc].steps) = name)
                       => expr = Void
                 /\ (\E i \in 1..Len(SourceDirectories) :
                        LET p == SourceDirectories[i] \o name \o <<SourceExtension>>
                        IN  /\ p \in DOMAIN files
                            /\ files[p].status # "ok"
                            /\ \A j \in 1..(i - 1) :
                                  (SourceDirectories[j] \o name \o <<SourceExtension>>)
                                     \notin DOMAIN files)
                       => expr = Void]_vars

\* A nested build has just lowered to Void the import of a module that an
\* enclosing build is still resolving, although the module's file is fine.
C5_Witness ==
    /\ Len(stack) >= 2
    /\ Top.pc > 1
    /\ Last(Top.body) = Void
    /\ Top.ast[Top.pc - 1].kind = "Import"
    /\ \E e \in 1..(Len(stack) - 1) :
          /\ Resolving(e) = ModuleNameForImport(Top.ast[Top.pc - 1].steps)
          /\ files[stack[e + 1].path].status = "ok"

FileFails(path) == path \notin DOMAIN files \/ files[path].status # "ok"

\* C6: a top-level build returns no module exactly when reading or parsing
\* its own file fails, with exactly one diagnostic for it, at (1,1) for an
\* I/O error and at the parser's position for a syntax error; once the file
\* has parsed the build returns a Module, whatever diagnostics lowering and
\* imported files add.
C6_NoneIffParseFails ==
    [][/\ (stack = <<>> /\ calls' = calls + 1) =>
             LET path == result'.path
             IN  IF FileFails(path)
                 THEN /\ result'.kind = "None"
                      /\ stack' = <<>>
                      /\ Len(diagnostics') = Len(diagnostics) + 1
                      /\ SubSeq(diagnostics', 1, Len(diagnostics)) = diagnostics
                      /\ Last(diagnostics').path = path
                      /\ IF path \in DOMAIN files /\ files[path].status = "syntax"
                         THEN /\ Last(diagnostics').line = files[path].line
                              /\ Last(diagnostics').column = files[path].column
                         ELSE /\ Last(diagnostics').line = 1
                              /\ Last(diagnostics').column = 1
                 ELSE /\ result'.kind = "Running"
                      /\ diagnostics' = diagnostics
       /\ result.kind = "Running" =>
             /\ result'.kind \in {"Running", "Some"}
             /\ result'.path = result.path
             /\ (stack' = <<>>) <=> (result'.kind = "Some")
       /\ (result.kind # "Running" /\ stack = <<>>) =>
             (result'.kind # "Some" \/ result' = result)]_vars

\* A top-level build has returned a Module although lowering recorded a
\* mutable constant and an import of its file failed to resolve.
C6_Witness ==
    /\ stack = <<>>
    /\ result.kind = "Some"
    /\ \E i, j \in 1..Len(diagnostics) :
          /\ diagnostics[i].message = MsgMutableConstant
          /\ diagnostics[j].message \in {MsgSyntax, MsgIo}
          /\ diagnostics[i].path = result.path

\* The innermost build lowers a node of the given kinds in this step.
LowersNodeOf(kinds) == AtNode /\ CurrentNode.kind \in kinds

\* The expression the innermost build appends in this step.
NewExpr == Last(stack'[Len(stack)].body)

\* C7: an identifier lowers to GetLocal of the local's Variable when the name
\* is bound in the current locals (also when it is bound as a global too),
\* else to GetGlobal when it is bound in the module globals, else to a send
\* of the name to the implicit self with no explicit argument; no diagnostic
\* is recorded.
C7_IdentifierOrder ==
    [][LowersNodeOf({"Identifier"}) =>
          LET node == CurrentNode
              self == [kind |-> "GetSelf", line |-> node.line, column |-> node.column]
          IN  /\ Len(stack') = Len(stack)
              /\ Len(stack'[Len(stack)].body) = Len(Top.body) + 1
              /\ diagnostics' = diagnostics
              /\ IF node.name \in DOMAIN Top.locals.variables
                 THEN NewExpr = [kind |-> "GetLocal",
                                 variable |-> Top.locals.variables[node.name],
                                 line |-> node.line, column |-> node.column]
                 ELSE IF node.name \in DOMAIN Top.globals.variables
                 THEN NewExpr = [kind |-> "GetGlobal",
                                 variable |-> Top.globals.variables[node.name],
                                 line |-> node.line, column |-> node.column]
                 ELSE NewExpr = [kind |-> "SendObjectMessage", receiver |-> self,
                                 name |-> node.name, arguments |-> <<self>>,
                                 line |-> node.line, column |-> node.column]]_vars

\* A name defined as a local first and imported as a global afterwards has
\* been read, and the read lowered to GetLocal.
C7_Witness ==
    /\ stack # <<>>
    /\ Len(Top.body) = 3
    /\ Top.body[1].kind = "SetLocal"
    /\ Top.body[2].kind = "ImportModule"
    /\ Top.body[3].kind = "GetLocal"
    /\ Top.body[3].variable.name \in DOMAIN Top.globals.variables
    /\ Top.body[3].variable = Top.body[1].variable

\* The SetLocal of the name of body[j] that precedes position j most closely.
DefinedBy(body, i, j) ==
    /\ i < j
    /\ body[i].kind = "SetLocal"
    /\ \A k \in (i + 1)..(j - 1) :
          body[k].kind = "SetLocal" => body[k].variable.name # body[i].variable.name

\* C8: in the body of every build the definitions of locals get strictly
\* growing slot indices, a lookup returns the slot of the latest definition
\* of the name, every read of a local keeps the slot of the definition that
\* preceded it, and a binding whose value reads its own name carries the
\* earlier slot in the inner GetLocal and the new slot in the SetLocal.
C8_Redefinition ==
    \A d \in 1..Len(stack) :
       LET body  == stack[d].body
           scope == stack[d].locals
       IN  /\ \A i, j \in 1..Len(body) :
                 (i < j /\ body[i].kind = "SetLocal" /\ body[j].kind = "SetLocal")
                    => body[i].variable.index < body[j].variable.index
           /\ \A n \in DOMAIN scope.variables :
                 \E i \in 1..Len(body) :
                    /\ DefinedBy(body, i, Len(body) + 1)
                    /\ body[i].variable = scope.variables[n]
                    /\ body[i].variable.name = n
           /\ \A j \in 1..Len(body) :
                 body[j].kind = "GetLocal" =>
                    \E i \in 1..(j - 1) :
                       /\ DefinedBy(body, i, j)
                       /\ body[i].variable = body[j].variable
           /\ \A j \in 1..Len(body) :
                 (body[j].kind = "SetLocal" /\ body[j].value.kind = "GetLocal") =>
                    /\ body[j].value.variable.index < body[j].variable.index
                    /\ \E i \in 1..(j - 1) :
                          /\ DefinedBy(body, i, j)
                          /\ body[i].variable = body[j].value.variable

\* let x = 1; var x = x; x: two slots for x, the second binding reads the
\* first slot, and the read after it gets the second slot.
C8_Witness ==
    /\ stack # <<>>
    /\ Len(Top.body) = 3
    /\ Top.body[1].kind = "SetLocal"
    /\ Top.body[2].kind = "SetLocal"
    /\ Top.body[2].variable.name = Top.body[1].variable.name
    /\ Top.body[2].variable.index # Top.body[1].variable.index
    /\ Top.body[2].value.kind = "GetLocal"
    /\ Top.body[2].value.variable = Top.body[1].variable
    /\ Top.body[3].kind = "GetLocal"
    /\ Top.body[3].variable = Top.body[2].variable

\* The innermost build lowers a binding whose target is a constant name.
LowersConstantBinding ==
    /\ LowersNodeOf({"LetDefine", "VarDefine"})
    /\ CurrentNode.name.kind = "Constant"

\* C9: a binding of a constant name lowers to a SetAttribute on the implicit
\* self carrying the lowered value and the build moves on to the next node;
\* declared mutable it appends exactly one diagnostic, at the binding's
\* position, and declared immutable it appends none.
C9_MutableConstant ==
    [][LowersConstantBinding =>
          LET node == CurrentNode
          IN  /\ Len(stack') = Len(stack)
              /\ stack'[Len(stack)].pc = Top.pc + 1
              /\ Len(stack'[Len(stack)].body) = Len(Top.body) + 1
              /\ NewExpr.kind = "SetAttribute"
              /\ NewExpr.name = node.name.name
              /\ NewExpr.receiver =
                    [kind |-> "GetSelf", line |-> node.line, column |-> node.column]
              /\ NewExpr.line = node.line /\ NewExpr.column = node.column
              /\ NewExpr.value # Void
              /\ NewExpr.value.line = node.value.line
              /\ NewExpr.value.column = node.value.column
              /\ IF node.kind = "VarDefine"
                 THEN diagnostics' =
                         Append(diagnostics,
                                [path |-> Top.path, message |-> MsgMutableConstant,
                                 line |-> node.line, column |-> node.column])
                 ELSE diagnostics' = diagnostics]_vars

\* A mutable constant was lowered to a SetAttribute with its diagnostic and
\* the node after it has been lowered too.
C9_Witness ==
    /\ stack # <<>>
    /\ \E i \in 1..(Len(Top.body) - 1) :
          /\ Top.ast[i].kind = "VarDefine"
          /\ Top.ast[i].name.kind = "Constant"
          /\ Top.body[i].kind = "SetAttribute"
          /\ Top.body[i + 1] # Void
          /\ \E k \in 1..Len(diagnostics) :
                /\ diagnostics[k].message = MsgMutableConstant
                /\ diagnostics[k].line = Top.ast[i].line
                /\ diagnostics[k].path = Top.path

\* C10: a send with n explicit arguments lowers to a SendObjectMessage with
\* n + 1 arguments: the lowered receiver (the explicit one, else GetSelf at
\* the send's position), which is also the receiver field, and then the
\* lowered arguments in source order.
C10_CallConvention ==
    [][LowersNodeOf({"Send"}) =>
          LET node == CurrentNode
          IN  /\ Len(stack') = Len(stack)
              /\ NewExpr.kind = "SendObjectMessage"
              /\ NewExpr.name = node.name
              /\ Len(NewExpr.arguments) = Len(node.arguments) + 1
              /\ NewExpr.arguments[1] = NewExpr.receiver
              /\ IF node.receiver = NoNode
                 THEN NewExpr.receiver =
                         [kind |-> "GetSelf", line |-> node.line, column |-> node.column]
                 ELSE /\ NewExpr.receiver.kind # "GetSelf"
                      /\ NewExpr.receiver.line = node.receiver.line
                      /\ NewExpr.receiver.column = node.receiver.column
              /\ \A i \in 1..Len(node.arguments) :
                    /\ NewExpr.arguments[i + 1].line = node.arguments[i].line
                    /\ NewExpr.arguments[i + 1].column = node.arguments[i].column
                    /\ node.arguments[i].kind = "Integer" =>
                          NewExpr.arguments[i + 1] =
                             [kind |-> "Integer", value |-> node.arguments[i].value,
                              line |-> node.arguments[i].line,
                              column |-> node.arguments[i].column]]_vars

\* A send with an explicit receiver and two arguments has been lowered to a
\* SendObjectMessage with three arguments.
C10_Witness ==
    /\ stack # <<>>
    /\ Top.body # <<>>
    /\ Last(Top.body).kind = "SendObjectMessage"
    /\ Len(Last(Top.body).arguments) = 3
    /\ Last(Top.body).receiver.kind \in {"GetLocal", "GetGlobal"}
    /\ Last(Top.body).arguments[1] = Last(Top.body).receiver
    /\ Last(Top.body).arguments[2].kind = "Integer"

\* C11: the diagnostics of a Builder are append-only over all its builds,
\* nested builds of imported files included: every step keeps the records
\* it found, in their order, and at most adds records at the end.
C11_DiagnosticsAppendOnly ==
    [][/\ Len(diagnostics') >= Len(diagnostics)
       /\ SubSeq(diagnostics', 1, Len(diagnostics)) = diagnostics]_vars

\* A nested build is lowering an imported file while the diagnostics hold
\* records of two different files.
C11_Witness ==
    /\ Len(stack) >= 2
    /\ \E i, j \in 1..Len(diagnostics) :
          /\ i < j
          /\ diagnostics[i].path # diagnostics[j].path

\* The module names that enclosing builds are resolving.
ResolvingNames == { Resolving(d) : d \in 1..(Len(stack) - 1) }

\* C13: a registry entry only moves forward.  The name a nested build
\* resolves has an entry without a value from the start of that build; an
\* entry is never removed; an entry with a Module never changes; an entry
\* without a value gets a Module only when the nested build of its name
\* returns, and otherwise stays without a value.
C13_RegistryMovesForward ==
    /\ [](\A n \in ResolvingNames : n \in DOMAIN modules /\ modules[n] = NoneModule)
    /\ [][\A n \in DOMAIN modules :
             /\ n \in DOMAIN modules'
             /\ modules[n].kind = "Some" => modules'[n] = modules[n]
             /\ modules[n].kind = "None" =>
                   \/ modules'[n] = NoneModule
                   \/ /\ modules'[n].kind = "Some"
                      /\ Len(stack) >= 2
                      /\ Len(stack') = Len(stack) - 1
                      /\ Resolving(Len(stack) - 1) = n]_vars

\* A nested build is active while the registry holds a resolved module, a
\* module being resolved and a module that failed to resolve.
C13_Witness ==
    /\ Len(stack) >= 2
    /\ \E n \in DOMAIN modules : modules[n].kind = "Some"
    /\ \E n \in DOMAIN modules : modules[n] = NoneModule /\ n \in ResolvingNames
    /\ \E n \in DOMAIN modules : modules[n] = NoneModule /\ n \notin ResolvingNames

\* The import at the current node names a module whose resolution failed:
\* its entry has no value and no enclosing build is resolving it.
ImportOfFailedModule ==
    /\ AtNode
    /\ CurrentNode.kind = "Import"
    /\ ModuleNameForImport(CurrentNode.steps) \in DOMAIN modules
    /\ modules[ModuleNameForImport(CurrentNode.steps)] = NoneModule
    /\ ModuleNameForImport(CurrentNode.steps) \notin ResolvingNames

\* C18: an import of a module name whose resolution failed earlier searches
\* no directory, starts no nested build, appends no diagnostic, leaves the
\* registry as it is and lowers to Void.
C18_FailedNeverRetried ==
    [][ImportOfFailedModule =>
          /\ searched' = searched
          /\ nested' = nested
          /\ diagnostics' = diagnostics
          /\ modules' = modules
          /\ Len(stack') = Len(stack)
          /\ stack'[Len(stack)].body = Append(Top.body, Void)
          /\ stack'[Len(stack)].globals = Top.globals]_vars

\* One file has imported a missing module twice: both imports are Void, the
\* module was searched for once and there is one diagnostic.
C18_Witness ==
    /\ stack # <<>>
    /\ Len(Top.body) >= 2
    /\ Top.ast[1].kind = "Import"
    /\ Top.ast[2].kind = "Import"
    /\ ModuleNameForImport(Top.ast[1].steps) = ModuleNameForImport(Top.ast[2].steps)
    /\ Top.body[1] = Void
    /\ Top.body[2] = Void
    /\ searched[ModuleNameForImport(Top.ast[1].steps)] = 1
    /\ nested[ModuleNameForImport(Top.ast[1].steps)] = 0
    /\ Len(diagnostics) = 1

\* C12: a Timer is finished exactly when start and stop have each been
\* called at least once, in either order; a new Timer is not finished; and
\* duration_nanosec returns 0 whenever start or stop has not been called.
C12_TimerFinished ==
    /\ Finished(timer) <=> (started /\ stopped)
    /\ timer = NewTimer => ~Finished(timer)
    /\ ~(started /\ stopped) => DurationNanosec(timer) = {Returned(0)}

\* stop was called before start, then start: the timer is finished although
\* its stop reading is the earlier one.
C12_Witness ==
    /\ started
    /\ stopped
    /\ Finished(timer)
    /\ timer.stop.value < timer.start.value

\* A node of the sequence before position i binds the local name.
BindsBefore(nodes, i, name) ==
    \E k \in 1..(i - 1) :
       /\ nodes[k].kind \in {"LetDefine", "VarDefine"}
       /\ nodes[k].name.kind = "Identifier"
       /\ nodes[k].name.name = name

\* The positions of the body nodes that read the name before the body binds
\* it itself.
ReadsOf(nodes, name) ==
    { i \in 1..Len(nodes) :
         /\ nodes[i].kind = "Identifier"
         /\ nodes[i].name = name
         /\ ~BindsBefore(nodes, i, name) }

\* C14: when a closure is lowered every parameter name is defined in the
\* locals of the closure's CodeObject, and an identifier of the body that
\* names a parameter lowers to GetLocal.
C14_ClosureParameters ==
    [][LowersNodeOf({"Closure"}) =>
          \A j \in 1..Len(CurrentNode.arguments) :
             LET name == CurrentNode.arguments[j].name
             IN  /\ Lookup(NewExpr.body.locals, name) # NoVariable
                 /\ \A i \in ReadsOf(CurrentNode.body.nodes, name) :
                       NewExpr.body.body[i].kind = "GetLocal"]_vars

\* The innermost build lowers a method that has a body.
LowersMethodWithBody == LowersNodeOf({"Method"}) /\ CurrentNode.body # NoNode

\* The last parameter of the list that has the name.
LastNamed(arguments, name) ==
    CHOOSE j \in 1..Len(arguments) :
       /\ arguments[j].name = name
       /\ \A k \in (j + 1)..Len(arguments) : arguments[k].name # name

\* C15: when a method with a body is lowered its parameters are Immutable
\* locals of a new scope, with slots in declaration order, before the body
\* is lowered: an identifier of the body that names a parameter lowers to
\* GetLocal of that parameter, whether or not a module global or a local of
\* the enclosing body has the name, and the scope of the Method's CodeObject
\* holds the parameters.
C15_MethodParameters ==
    [][LowersMethodWithBody =>
          LET node == CurrentNode
              code == NewExpr.body
          IN  /\ NewExpr.kind = "Method"
              /\ code.locals.size >= Len(node.arguments)
              /\ \A j \in 1..Len(node.arguments) :
                    LET name  == node.arguments[j].name
                        param == [name |-> name, mutability |-> "Immutable",
                                  index |-> LastNamed(node.arguments, name) - 1]
                    IN  /\ Lookup(code.locals, name) # NoVariable
                        /\ ~BindsBefore(node.body.nodes, Len(node.body.nodes) + 1, name)
                              => Lookup(code.locals, name) = param
                        /\ \A i \in ReadsOf(node.body.nodes, name) :
                              code.body[i] = GetLocal(param, node.body.nodes[i].line,
                                                      node.body.nodes[i].column)]_vars

\* A method with the parameters y and x has been lowered after an import
\* that bound the global x: the body's x is the local in slot 1 and its y
\* the local in slot 0, and the code object's scope holds the two.
C15_Witness ==
    /\ stack # <<>>
    /\ Len(Top.body) >= 2
    /\ Top.body[1].kind = "ImportModule"
    /\ Lookup(Top.globals, "x") # NoVariable
    /\ Top.body[2].kind = "Method"
    /\ Top.body[2].body.body[1].kind = "GetLocal"
    /\ Top.body[2].body.body[1].variable.index = 1
    /\ Top.body[2].body.body[2].variable.index = 0
    /\ Top.body[2].body.locals.size = 2

\* The innermost build lowers a node that has a body of its own.
LowersNested ==
    \/ LowersNodeOf({"Closure", "Class", "Trait", "Try"})
    \/ LowersMethodWithBody

\* The bodies of a nested construct: the nodes of each, the code object they
\* were lowered to, and the names the construct itself declares for the body
\* (parameters, the else argument).
NestedBodies(node, expr) ==
    CASE node.kind \in {"Closure", "Method"} ->
            {[nodes |-> node.body.nodes, code |-> expr.body,
              own |-> [j \in 1..Len(node.arguments) |-> node.arguments[j].name]]}
      [] node.kind \in {"Class", "Trait"} ->
            {[nodes |-> node.body.nodes, code |-> expr.body, own |-> <<>>]}
      [] node.kind = "Try" ->
            {[nodes |-> node.body.nodes, code |-> expr.body, own |-> <<>>]}
            \cup IF node.else_body = NoNode THEN {}
                 ELSE {[nodes |-> node.else_body.nodes, code |-> expr.else_body[1],
                        own |-> IF node.else_argument = NoNode THEN <<>>
                                ELSE <<NameOfNode(node.else_argument)>>]}

\* The nodes of the sequence that bind a local.
LocalBindings(nodes) ==
    { k \in 1..Len(nodes) :
         nodes[k].kind \in {"LetDefine", "VarDefine"} /\ nodes[k].name.kind = "Identifier" }

\* C16: lowering a closure, a method with a body, a class, a trait or a try
\* leaves the locals of the enclosing body as they were, and each body of the
\* construct is lowered in a scope of its own over the enclosing globals:
\* the scope holds no name and no slot but those the construct declares and
\* the body binds, and a name the body reads that is neither declared by the
\* construct nor bound earlier in the body lowers to GetGlobal when the
\* module globals bind it and never to GetLocal, whatever the enclosing
\* locals hold.
C16_NestedScope ==
    [][LowersNested =>
          /\ Len(stack') = Len(stack)
          /\ stack'[Len(stack)].locals = Top.locals
          /\ \A b \in NestedBodies(CurrentNode, NewExpr) :
                /\ Len(b.code.body) = Len(b.nodes)
                /\ b.code.locals.size <= Len(b.own) + Cardinality(LocalBindings(b.nodes))
                /\ \A n \in DOMAIN b.code.locals.variables :
                      \/ \E j \in 1..Len(b.own) : b.own[j] = n
                      \/ BindsBefore(b.nodes, Len(b.nodes) + 1, n)
                /\ \A i \in 1..Len(b.nodes) :
                      (/\ b.nodes[i].kind = "Identifier"
                       /\ \A j \in 1..Len(b.own) : b.own[j] # b.nodes[i].name
                       /\ ~BindsBefore(b.nodes, i, b.nodes[i].name))
                      => /\ b.code.body[i].kind # "GetLocal"
                         /\ Lookup(Top.globals, b.nodes[i].name) # NoVariable
                               => b.code.body[i] =
                                     GetGlobal(Lookup(Top.globals, b.nodes[i].name),
                                               b.nodes[i].line, b.nodes[i].column)]_vars

\* After `let x = 1` a class body that reads x, binds its own x and reads it
\* again has been lowered: the first read is a send to self, the second the
\* class body's own slot 0, and the enclosing locals still hold one slot.
C16_Witness ==
    /\ stack # <<>>
    /\ Len(Top.body) >= 2
    /\ Top.body[1].kind = "SetLocal"
    /\ Top.body[1].variable.name = "x"
    /\ Top.body[2].kind = "Class"
    /\ Top.body[2].body.body[1].kind = "SendObjectMessage"
    /\ Top.body[2].body.body[3].kind = "GetLocal"
    /\ Top.body[2].body.body[3].variable.index = 0
    /\ Top.body[2].body.locals.size = 1
    /\ Top.locals.size = 1
    /\ Lookup(Top.locals, "x") = Top.body[1].variable

\* The name the clause at position i of an import binds.
BoundName(symbols, i) ==
    IF symbols[i].alias # NoNode THEN symbols[i].alias.name ELSE symbols[i].symbol.name

\* The names that the ImportModule expressions of a body bound as globals.
ImportedNames(body) ==
    UNION { { body[j].symbols[i].variable.name : i \in 1..Len(body[j].symbols) } :
            j \in { k \in 1..Len(body) : body[k].kind = "ImportModule" } }

\* C17: an import that lowers to ImportModule defines one Immutable global
\* per symbol clause, in the next free slots of the importing module's
\* globals, named by the alias when there is one and by the symbol's name
\* otherwise; the ImportModule records for each clause the kind (module for
\* an identifier, constant for a constant name), the symbol's own name and
\* the binding; the other globals stay as they were; an import that lowers
\* to Void leaves the globals as they were; and a later identifier of an
\* imported name that no local shadows lowers to GetGlobal.
C17_ImportSymbols ==
    /\ [][\A d \in 1..MaxDepth :
             CompletesImport(d) =>
                LET node == stack[d].ast[stack[d].pc]
                    expr == Last(stack'[d].body)
                    g    == stack[d].globals
                    h    == stack'[d].globals
                    n    == Len(node.symbols)
                IN  /\ expr = Void => h = g
                    /\ expr.kind = "ImportModule" =>
                          /\ Len(expr.symbols) = n
                          /\ h.size = g.size + n
                          /\ \A i \in 1..n :
                                /\ expr.symbols[i].variable =
                                      [name |-> BoundName(node.symbols, i),
                                       mutability |-> "Immutable",
                                       index |-> g.size + i - 1]
                                /\ expr.symbols[i].kind =
                                      (IF node.symbols[i].symbol.kind = "Identifier"
                                       THEN "module" ELSE "constant")
                                /\ expr.symbols[i].name = node.symbols[i].symbol.name
                                /\ (\A k \in (i + 1)..n :
                                       BoundName(node.symbols, k) # BoundName(node.symbols, i))
                                   => Lookup(h, BoundName(node.symbols, i)) =
                                         expr.symbols[i].variable
                          /\ \A name \in DOMAIN g.variables :
                                (\A i \in 1..n : BoundName(node.symbols, i) # name)
                                => Lookup(h, name) = Lookup(g, name)
                          /\ \A name \in DOMAIN h.variables :
                                \/ name \in DOMAIN g.variables
                                \/ \E i \in 1..n : BoundName(node.symbols, i) = name]_vars
    /\ [][(/\ LowersNodeOf({"Identifier"})
           /\ CurrentNode.name \in ImportedNames(Top.body)
           /\ Lookup(Top.locals, CurrentNode.name) = NoVariable)
          => /\ NewExpr.kind = "GetGlobal"
             /\ NewExpr.variable = Lookup(Top.globals, CurrentNode.name)
             /\ NewExpr.variable.name = CurrentNode.name]_vars

\* The import of `Foo as y, z` from an existing module has been lowered and
\* then the identifier y: the import recorded the constant Foo under the
\* global y and the module z under the global z, and y reads that global.
C17_Witness ==
    /\ stack # <<>>
    /\ Len(Top.body) >= 2
    /\ Top.body[1].kind = "ImportModule"
    /\ Len(Top.body[1].symbols) = 2
    /\ Top.body[1].symbols[1].kind = "constant"
    /\ Top.body[1].symbols[1].name = "Foo"
    /\ Top.body[1].symbols[1].variable.name = "y"
    /\ Top.body[1].symbols[2].kind = "module"
    /\ Top.body[2].kind = "GetGlobal"
    /\ Top.body[2].variable = Top.body[1].symbols[1].variable

====
